---- MODULE Spec2Model ----
(***************************************************************************)
(* Dependency-graph visualiser (depvis stages 3, 4 and 5).                 *)
(*                                                                         *)
(* A graph is a Python dict: here a sequence of <<key, deps>> pairs in     *)
(* insertion order, deps being the ordered dependency list of the key.     *)
(* A call that can raise returns an outcome record [kind, value]: kind is  *)
(* "return" or the name of the exception.                                  *)
(***************************************************************************)
EXTENDS Integers, Sequences, FiniteSets, TLC

VARIABLES text, graph, given, start, pc, op, result, stack, visited, lines

vars == <<text, graph, given, start, pc, op, result, stack, visited, lines>>

\* ------------------------------------------------------------------ bounds

\* Total number of dependency entries of an input graph.
MaxEdges == 3
\* Cap on the recursion depth of the tree walk (frames on the call stack).
MaxDepth == 6
\* Characters per line and lines per adjacency text.
MaxLineLen == 3
MaxLines == 2

\* Node names of the input graphs.
Names == {"A", "B", "C"}

NoStart == "-"

\* ------------------------------------------------------------ dict helpers

Keys(g) == {g[i][1] : i \in DOMAIN g}

HasKey(g, k) == \E i \in DOMAIN g : g[i][1] = k

Index(g, k) == CHOOSE i \in DOMAIN g : g[i][1] = k

\* graph.get(k, [])
Get(g, k) == IF HasKey(g, k) THEN g[Index(g, k)][2] ELSE <<>>

\* graph[k] = v : an existing key keeps its place, a new one goes last
SetItem(g, k, v) ==
    IF HasKey(g, k) THEN [g EXCEPT ![Index(g, k)] = <<k, v>>]
    ELSE Append(g, <<k, v>>)

Return(v) == [kind |-> "return", value |-> v]

Raise(e) == [kind |-> e, value |-> <<>>]

\* ------------------------------------------------------------ reverse_graph

RECURSIVE ReverseLoopSelf(_, _, _, _)
\* the slip reversed_graph[dep].append(dep)
ReverseLoopSelf(g, i, j, acc) ==
    IF i > Len(g) THEN Return(acc)
    ELSE IF j > Len(g[i][2]) THEN ReverseLoopSelf(g, i + 1, 1, acc)
    ELSE LET dep == g[i][2][j]
         IN  IF ~HasKey(acc, dep) THEN Raise("KeyError")
             ELSE ReverseLoopSelf(g, i, j + 1,
                                  SetItem(acc, dep, Append(Get(acc, dep), dep)))

RECURSIVE ReverseLoop(_, _, _, _)
\* for node, deps in graph.items(): for dep in deps: reversed_graph[dep].append(node)
ReverseLoop(g, i, j, acc) ==
    IF i > Len(g) THEN Return(acc)
    ELSE IF j > Len(g[i][2]) THEN ReverseLoop(g, i + 1, 1, acc)
    ELSE LET dep == g[i][2][j]
         IN  IF ~HasKey(acc, dep) THEN Raise("KeyError")
             ELSE ReverseLoop(g, i, j + 1,
                              SetItem(acc, dep, Append(Get(acc, dep), g[i][1])))

reverse_graph(g) ==
    ReverseLoop(g, 1, 1, [i \in DOMAIN g |-> <<g[i][1], <<>>>>])

\* --------------------------------------------------------- bfs_dependencies

RECURSIVE BfsLoopDup(_, _, _, _)
\* order.append(node) moved out of the visited test
BfsLoopDup(g, seen, queue, order) ==
    IF queue = <<>> THEN order
    ELSE LET node == Head(queue)
         IN  IF node \notin seen
             THEN BfsLoopDup(g, seen \cup {node}, Tail(queue) \o Get(g, node),
                             Append(order, node))
             ELSE BfsLoopDup(g, seen, Tail(queue), Append(order, node))

RECURSIVE BfsLoop(_, _, _, _)
\* stage 4 and 5: every dependency of a newly visited node is enqueued
BfsLoop(g, seen, queue, order) ==
    IF queue = <<>> THEN order
    ELSE LET node == Head(queue)
         IN  IF node \notin seen
             THEN BfsLoop(g, seen \cup {node}, Tail(queue) \o Get(g, node),
                          Append(order, node))
             ELSE BfsLoop(g, seen, Tail(queue), order)

bfs_dependencies(g, s) == BfsLoop(g, {}, <<s>>, <<>>)

RECURSIVE Unseen(_, _)
\* the dependencies not yet visited, in order
Unseen(deps, seen) ==
    IF deps = <<>> THEN <<>>
    ELSE IF Head(deps) \in seen THEN Unseen(Tail(deps), seen)
    ELSE <<Head(deps)>> \o Unseen(Tail(deps), seen)

RECURSIVE BfsLoop3(_, _, _, _)
\* stage 3: only dependencies not yet visited are enqueued
BfsLoop3(g, seen, queue, order) ==
    IF queue = <<>> THEN order
    ELSE LET node == Head(queue)
         IN  IF node \in seen THEN BfsLoop3(g, seen, Tail(queue), order)
             ELSE BfsLoop3(g, seen \cup {node},
                           Tail(queue) \o Unseen(Get(g, node), seen \cup {node}),
                           Append(order, node))

bfs_dependencies3(g, s) == BfsLoop3(g, {}, <<s>>, <<>>)

\* ------------------------------------------------------------ detect_cycles

\* graph[node] on a defaultdict(list): a missing key is inserted with []
GetItemDefault(g, k) == IF HasKey(g, k) THEN g ELSE Append(g, <<k, <<>>>>)

RECURSIVE visit(_, _)
RECURSIVE VisitDeps(_, _, _, _)
\* st = [graph, visited, stack]; the result is [ret, st]
visit(node, st) ==
    IF node \in st.stack THEN [ret |-> TRUE, st |-> st]
    ELSE IF node \in st.visited THEN [ret |-> FALSE, st |-> st]
    ELSE VisitDeps(node, Get(st.graph, node), 1,
                   [graph |-> GetItemDefault(st.graph, node),
                    visited |-> st.visited \cup {node},
                    stack |-> st.stack \cup {node}])

\* for dep in graph[node]: if visit(dep): return True
VisitDeps(node, deps, i, st) ==
    IF i > Len(deps)
    THEN [ret |-> FALSE, st |-> [st EXCEPT !.stack = @ \ {node}]]
    ELSE LET r == visit(deps[i], st)
         IN  IF r.ret THEN r ELSE VisitDeps(node, deps, i + 1, r.st)

RECURSIVE DetectLoop(_, _, _)
\* for node in graph: the dict iterator raises when the dict's size has
\* changed since the loop began, also on the step that would end the loop
DetectLoop(n, i, st) ==
    IF Len(st.graph) # n
    THEN [kind |-> "RuntimeError", value |-> FALSE, graph |-> st.graph]
    ELSE IF i > n
    THEN [kind |-> "return", value |-> FALSE, graph |-> st.graph]
    ELSE LET r == visit(st.graph[i][1], st)
         IN  IF r.ret
             THEN [kind |-> "return", value |-> TRUE, graph |-> r.st.graph]
             ELSE DetectLoop(n, i + 1, r.st)

detect_cycles(g) ==
    DetectLoop(Len(g), 1, [graph |-> g, visited |-> {}, stack |-> {}])

\* ---------------------------------------------------------- create_graphviz

RECURSIVE EdgeLoop(_, _, _, _)
\* the dot.edge(source, target) calls, in order
EdgeLoop(g, i, j, reverse) ==
    IF i > Len(g) THEN <<>>
    ELSE IF j > Len(g[i][2]) THEN EdgeLoop(g, i + 1, 1, reverse)
    ELSE <<IF reverse THEN <<g[i][2][j], g[i][1]>> ELSE <<g[i][1], g[i][2][j]>>>>
         \o EdgeLoop(g, i, j + 1, reverse)

create_graphviz(g, reverse) == EdgeLoop(g, 1, 1, reverse)

\* stage 5 main: the graph is reversed when --reverse is given, and the
\* same flag is passed on to create_graphviz
main_diagram(g, reverse) ==
    IF reverse
    THEN LET r == reverse_graph(g)
         IN  IF r.kind = "return" THEN Return(create_graphviz(r.value, TRUE))
             ELSE r
    ELSE Return(create_graphviz(g, FALSE))

\* ------------------------------------------------------------------ inputs

\* The sequences over S of length at most n.
SeqsUpTo(S, n) == UNION {[1..k -> S] : k \in 0..n}

RECURSIVE KeyOrders(_)
\* Every ordering of every subset of S: the key orders a dict can have.
KeyOrders(S) ==
    {<<>>} \cup UNION {{<<k>> \o r : r \in KeyOrders(S \ {k})} : k \in S}

RECURSIVE GraphsOn(_, _)
\* The graphs with the keys `keys`, in that order, and at most `budget`
\* dependency entries in all; a dependency is any name, declared or not.
GraphsOn(keys, budget) ==
    IF keys = <<>> THEN {<<>>}
    ELSE UNION {{<<<<Head(keys), deps>>>> \o rest :
                    rest \in GraphsOn(Tail(keys), budget - Len(deps))} :
                deps \in SeqsUpTo(Names, budget)}

Graphs == UNION {GraphsOn(keys, MaxEdges) : keys \in KeyOrders(Names)}

\* ----------------------------------------------------------- state machine

Init ==
    /\ graph \in Graphs
    /\ given = graph
    /\ text = <<>>
    /\ start = NoStart
    /\ pc = "ready"
    /\ op = "none"
    /\ result = Return(<<>>)
    /\ stack = <<>>
    /\ visited = {}
    /\ lines = <<>>

\* reverse_graph(graph)
CallReverse ==
    /\ pc = "ready"
    /\ result' = reverse_graph(graph)
    /\ op' = "reverse"
    /\ pc' = "returned"
    /\ UNCHANGED <<text, graph, given, start, stack, visited, lines>>

\* reverse_graph(reverse_graph(graph)): the second call is made on the
\* graph the first one returned
CallReverseAgain ==
    /\ pc = "returned"
    /\ op = "reverse"
    /\ result.kind = "return"
    /\ result' = reverse_graph(result.value)
    /\ op' = "reverse2"
    /\ UNCHANGED <<text, graph, given, start, pc, stack, visited, lines>>

\* bfs_dependencies(graph, s) of stages 4 and 5
CallBfs ==
    /\ pc = "ready"
    /\ \E s \in Names :
          /\ start' = s
          /\ result' = Return(bfs_dependencies(graph, s))
    /\ op' = "bfs"
    /\ pc' = "returned"
    /\ UNCHANGED <<text, graph, given, stack, visited, lines>>

\* bfs_dependencies(graph, s) of stage 3
CallBfs3 ==
    /\ pc = "ready"
    /\ \E s \in Names :
          /\ start' = s
          /\ result' = Return(bfs_dependencies3(graph, s))
    /\ op' = "bfs3"
    /\ pc' = "returned"
    /\ UNCHANGED <<text, graph, given, stack, visited, lines>>

\* detect_cycles(graph): graph is the defaultdict the call may add keys to
CallDetectCycles ==
    /\ pc = "ready"
    /\ LET r == detect_cycles(graph)
       IN  /\ result' = [kind |-> r.kind, value |-> r.value]
           /\ graph' = r.graph
    /\ op' = "detect_cycles"
    /\ pc' = "returned"
    /\ UNCHANGED <<text, given, start, stack, visited, lines>>

\* stage 5 main, from the --reverse test to create_graphviz
CallDiagram ==
    /\ pc = "ready"
    /\ \E reverse \in BOOLEAN :
          /\ result' = main_diagram(graph, reverse)
          /\ op' = IF reverse THEN "diagram_reverse" ELSE "diagram"
    /\ pc' = "returned"
    /\ UNCHANGED <<text, graph, given, start, stack, visited, lines>>

\* --------------------------------------------------------- print_ascii_tree

\* One frame per active call print_ascii_tree(graph, node, prefix, visited):
\* depth is the number of indent units of prefix, i is 0 before the body has
\* run and otherwise the position of the next dependency of the for loop.
Frame(node, depth) == [node |-> node, depth |-> depth, i |-> 0]

Top == stack[Len(stack)]

Pop == SubSeq(stack, 1, Len(stack) - 1)

\* print(prefix + start + marker) when cycle, print(prefix + start) otherwise
Line(node, depth, cycle) == [node |-> node, depth |-> depth, cycle |-> cycle]

\* main calls print_ascii_tree(graph, start) with an empty prefix and no set
TreeCall ==
    /\ pc = "ready"
    /\ \E s \in Names :
          /\ start' = s
          /\ stack' = <<Frame(s, 0)>>
    /\ visited' = {}
    /\ lines' = <<>>
    /\ op' = "tree"
    /\ pc' = "tree"
    /\ UNCHANGED <<text, graph, given, result>>

\* the body without visited.add(start)
TreeEnterNoAdd ==
    /\ pc = "tree"
    /\ stack # <<>>
    /\ Top.i = 0
    /\ IF Top.node \in visited
       THEN /\ lines' = Append(lines, Line(Top.node, Top.depth, TRUE))
            /\ stack' = Pop
       ELSE /\ lines' = Append(lines, Line(Top.node, Top.depth, FALSE))
            /\ stack' = [stack EXCEPT ![Len(stack)].i = 1]
    /\ UNCHANGED <<text, graph, given, start, pc, op, result, visited>>

\* the body returning on a visited node without printing it
TreeEnterSilent ==
    /\ pc = "tree"
    /\ stack # <<>>
    /\ Top.i = 0
    /\ IF Top.node \in visited
       THEN /\ stack' = Pop
            /\ UNCHANGED <<lines, visited>>
       ELSE /\ lines' = Append(lines, Line(Top.node, Top.depth, FALSE))
            /\ visited' = visited \cup {Top.node}
            /\ stack' = [stack EXCEPT ![Len(stack)].i = 1]
    /\ UNCHANGED <<text, graph, given, start, pc, op, result>>

\* the body up to the for loop: a visited node is printed with the marker
\* and the call returns, a new one is printed and added to visited
TreeEnter ==
    /\ pc = "tree"
    /\ stack # <<>>
    /\ Top.i = 0
    /\ IF Top.node \in visited
       THEN /\ lines' = Append(lines, Line(Top.node, Top.depth, TRUE))
            /\ stack' = Pop
            /\ UNCHANGED visited
       ELSE /\ lines' = Append(lines, Line(Top.node, Top.depth, FALSE))
            /\ visited' = visited \cup {Top.node}
            /\ stack' = [stack EXCEPT ![Len(stack)].i = 1]
    /\ UNCHANGED <<text, graph, given, start, pc, op, result>>

\* the recursive call made with the caller's prefix, not prefix + "   "
TreeIterateFlat ==
    /\ pc = "tree"
    /\ stack # <<>>
    /\ Top.i >= 1
    /\ LET deps == Get(graph, Top.node)
       IN  IF Top.i <= Len(deps)
           THEN /\ Len(stack) < MaxDepth
                /\ stack' = Append([stack EXCEPT ![Len(stack)].i = @ + 1],
                                   Frame(deps[Top.i], Top.depth))
           ELSE stack' = Pop
    /\ UNCHANGED <<text, graph, given, start, pc, op, result, visited, lines>>

\* one turn of for dep in graph.get(start, []): the recursive call, or the
\* return at the end of the list
TreeIterate ==
    /\ pc = "tree"
    /\ stack # <<>>
    /\ Top.i >= 1
    /\ LET deps == Get(graph, Top.node)
       IN  IF Top.i <= Len(deps)
           THEN /\ Len(stack) < MaxDepth
                /\ stack' = Append([stack EXCEPT ![Len(stack)].i = @ + 1],
                                   Frame(deps[Top.i], Top.depth + 1))
           ELSE stack' = Pop
    /\ UNCHANGED <<text, graph, given, start, pc, op, result, visited, lines>>

\* the outermost call has returned: the printed lines are the output
TreeReturn ==
    /\ pc = "tree"
    /\ stack = <<>>
    /\ result' = Return(lines)
    /\ pc' = "returned"
    /\ UNCHANGED <<text, graph, given, start, op, stack, visited, lines>>

TreeStep == TreeEnter \/ TreeIterate \/ TreeReturn

Next ==
    \/ CallReverse
    \/ CallReverseAgain
    \/ CallBfs
    \/ CallBfs3
    \/ CallDetectCycles
    \/ CallDiagram
    \/ TreeCall
    \/ TreeEnter
    \/ TreeIterate
    \/ TreeReturn

Spec == Init /\ [][Next]_vars

\* The program is single-threaded and synchronous: a call that has begun
\* keeps executing.
FairSpec == Spec /\ WF_vars(TreeStep)

\* --------------------------------------------------------------- load_graph

\* A line of the adjacency text is a sequence of characters, a name a
\* non-empty sequence of characters; a text is a sequence of lines.
Chars == {"a", "A", "b", ":", " "}

Contains(s, c) == \E i \in DOMAIN s : s[i] = c

RECURSIVE LStrip(_)
LStrip(s) == IF s # <<>> /\ Head(s) = " " THEN LStrip(Tail(s)) ELSE s

RECURSIVE RStrip(_)
RStrip(s) ==
    IF s # <<>> /\ s[Len(s)] = " " THEN RStrip(SubSeq(s, 1, Len(s) - 1)) ELSE s

\* str.strip()
strip(s) == RStrip(LStrip(s))

UpperChar(c) == CASE c = "a" -> "A" [] c = "b" -> "B" [] OTHER -> c

RECURSIVE upper(_)
\* str.upper()
upper(s) == IF s = <<>> THEN <<>> ELSE <<UpperChar(Head(s))>> \o upper(Tail(s))

RECURSIVE SplitSep(_, _, _)
\* str.split(sep): every occurrence of sep ends a part; parts may be empty
SplitSep(s, sep, cur) ==
    IF s = <<>> THEN <<cur>>
    ELSE IF Head(s) = sep THEN <<cur>> \o SplitSep(Tail(s), sep, <<>>)
    ELSE SplitSep(Tail(s), sep, Append(cur, Head(s)))

\* str.split(sep, 1) of a string that contains sep
SplitOnce(s, sep) ==
    LET i == CHOOSE k \in DOMAIN s :
                 s[k] = sep /\ \A j \in 1..(k - 1) : s[j] # sep
    IN  <<SubSeq(s, 1, i - 1), SubSeq(s, i + 1, Len(s))>>

RECURSIVE SplitWs(_, _)
\* str.split(): the maximal runs of characters other than whitespace
SplitWs(s, cur) ==
    IF s = <<>> THEN (IF cur = <<>> THEN <<>> ELSE <<cur>>)
    ELSE IF Head(s) = " "
    THEN (IF cur = <<>> THEN <<>> ELSE <<cur>>) \o SplitWs(Tail(s), <<>>)
    ELSE SplitWs(Tail(s), Append(cur, Head(s)))

\* stages 4 and 5, one line: key, values = line.strip().split(":") raises
\* ValueError unless the split has exactly two parts
LoadLine(g, line) ==
    IF ~Contains(line, ":") THEN Return(g)
    ELSE LET parts == SplitSep(strip(line), ":", <<>>)
         IN  IF Len(parts) # 2 THEN Raise("ValueError")
             ELSE LET key == strip(parts[1])
                      values == strip(parts[2])
                  IN  Return(SetItem(g, key,
                                     IF values # <<>> THEN SplitWs(values, <<>>)
                                     ELSE <<>>))

RECURSIVE LoadLoop(_, _, _)
LoadLoop(txt, i, g) ==
    IF i > Len(txt) THEN Return(g)
    ELSE LET r == LoadLine(g, txt[i])
         IN  IF r.kind = "return" THEN LoadLoop(txt, i + 1, r.value) ELSE r

\* load_graph of stages 4 and 5
load_graph(txt) == LoadLoop(txt, 1, <<>>)

RECURSIVE UpperAll(_)
\* [d.strip().upper() for d in deps.split() if d.strip()]
UpperAll(tokens) ==
    IF tokens = <<>> THEN <<>>
    ELSE <<upper(Head(tokens))>> \o UpperAll(Tail(tokens))

\* stage 3, one line: graph[pkg].extend(deps_list) on a defaultdict(list)
LoadLine3(g, line) ==
    LET l == strip(line)
    IN  IF l = <<>> \/ ~Contains(l, ":") THEN g
        ELSE LET p == SplitOnce(l, ":")
                 pkg == upper(strip(p[1]))
             IN  SetItem(g, pkg, Get(g, pkg) \o UpperAll(SplitWs(p[2], <<>>)))

RECURSIVE LoadLoop3(_, _, _)
LoadLoop3(txt, i, g) ==
    IF i > Len(txt) THEN Return(g) ELSE LoadLoop3(txt, i + 1, LoadLine3(g, txt[i]))

\* load_graph of stage 3
load_graph3(txt) == LoadLoop3(txt, 1, <<>>)

\* stage 4 main after load_graph: the graph is reversed under --reverse and
\* the traversal starts from args.start.upper()
main4(g, s, reverse) ==
    LET r == IF reverse THEN reverse_graph(g) ELSE Return(g)
    IN  IF r.kind = "return" THEN Return(bfs_dependencies(r.value, upper(s)))
        ELSE r

\* stage 3 main after load_graph: detect_cycles(graph), then the traversal
\* from args.start as given
main3(g, s) ==
    LET c == detect_cycles(g)
    IN  IF c.kind = "return"
        THEN [kind |-> "return", value |-> bfs_dependencies3(c.graph, s),
              graph |-> c.graph]
        ELSE [kind |-> c.kind, value |-> <<>>, graph |-> c.graph]

\* ------------------------------------------------- the runs from a text

Lines == SeqsUpTo(Chars, MaxLineLen)

Texts == SeqsUpTo(Lines, MaxLines)

\* The --start arguments.
StartArgs == {<<"a">>, <<"A">>, <<"b">>}

InitLoad ==
    /\ text \in Texts
    /\ graph = <<>>
    /\ given = <<>>
    /\ start = NoStart
    /\ pc = "text"
    /\ op = "none"
    /\ result = Return(<<>>)
    /\ stack = <<>>
    /\ visited = {}
    /\ lines = <<>>

\* graph = load_graph(args.graph) in stages 4 and 5; an exception ends the run
Load ==
    /\ pc = "text"
    /\ LET r == load_graph(text)
       IN  /\ result' = r
           /\ graph' = r.value
           /\ given' = r.value
           /\ pc' = IF r.kind = "return" THEN "loaded" ELSE "failed"
    /\ op' = "load_graph"
    /\ UNCHANGED <<text, start, stack, visited, lines>>

\* graph = load_graph(args.graph) in stage 3
Load3 ==
    /\ pc = "text"
    /\ LET r == load_graph3(text)
       IN  /\ result' = r
           /\ graph' = r.value
           /\ given' = r.value
           /\ pc' = IF r.kind = "return" THEN "loaded" ELSE "failed"
    /\ op' = "load_graph3"
    /\ UNCHANGED <<text, start, stack, visited, lines>>

\* the rest of stage 4 main
Main4 ==
    /\ pc = "loaded"
    /\ op = "load_graph"
    /\ \E s \in StartArgs : \E reverse \in BOOLEAN :
          /\ start' = s
          /\ result' = main4(graph, s, reverse)
          /\ op' = IF reverse THEN "main4_reverse" ELSE "main4"
    /\ pc' = "returned"
    /\ UNCHANGED <<text, graph, given, stack, visited, lines>>

\* the rest of stage 3 main
Main3 ==
    /\ pc = "loaded"
    /\ op = "load_graph3"
    /\ \E s \in StartArgs :
          LET r == main3(graph, s)
          IN  /\ start' = s
              /\ result' = [kind |-> r.kind, value |-> r.value]
              /\ graph' = r.graph
    /\ op' = "main3"
    /\ pc' = "returned"
    /\ UNCHANGED <<text, given, stack, visited, lines>>

NextLoad == Load \/ Load3 \/ Main4 \/ Main3

SpecLoad == InitLoad /\ [][NextLoad]_vars

\* ------------------------------------------------- notions the claims use

RECURSIVE Closure(_, _)
\* The least set containing S and closed under the dependency edges of g.
Closure(g, S) ==
    LET T == S \cup UNION {{Get(g, n)[j] : j \in DOMAIN Get(g, n)} : n \in S}
    IN  IF T = S THEN S ELSE Closure(g, T)

\* The nodes reachable from s along dependency edges, s included.
Reachable(g, s) == Closure(g, {s})

\* The declared dependencies of declared node k.
DeclaredDeps(g, k) == {d \in Keys(g) : \E j \in DOMAIN Get(g, k) : Get(g, k)[j] = d}

RECURSIVE DeclaredClosure(_, _)
DeclaredClosure(g, S) ==
    LET T == S \cup UNION {DeclaredDeps(g, n) : n \in S}
    IN  IF T = S THEN S ELSE DeclaredClosure(g, T)

\* The subgraph induced by the declared keys has a directed cycle.
DeclaredCycle(g) ==
    \E k \in Keys(g) : k \in DeclaredClosure(g, DeclaredDeps(g, k))

\* Every dependency target is a declared key.
AllDeclared(g) ==
    \A i \in DOMAIN g : \A j \in DOMAIN g[i][2] : HasKey(g, g[i][2][j])

\* The number of positions of seq that hold v.
Occurrences(seq, v) == Cardinality({i \in DOMAIN seq : seq[i] = v})

\* The same keys in the same order, and per key the same dependencies with
\* the same multiplicities.
SameUpToOrder(g, h) ==
    /\ Len(g) = Len(h)
    /\ \A i \in DOMAIN g :
          /\ g[i][1] = h[i][1]
          /\ Len(g[i][2]) = Len(h[i][2])
          /\ \A v \in Keys(g) \cup Names :
                Occurrences(g[i][2], v) = Occurrences(h[i][2], v)

\* Every dependency list names declared keys in the order of their declaration.
KeyOrdered(g) ==
    \A i \in DOMAIN g : \A j \in DOMAIN g[i][2] : \A k \in DOMAIN g[i][2] :
        j < k => /\ HasKey(g, g[i][2][j])
                 /\ HasKey(g, g[i][2][k])
                 /\ Index(g, g[i][2][j]) <= Index(g, g[i][2][k])

Returned(o) == pc = "returned" /\ op = o

\* ------------------------------------------------------------------ claims

\* C1: bfs_dependencies(G, s), in both its versions, returns a sequence that
\* begins with s, holds every node reachable from s exactly once, and holds
\* no other node.
C1_BfsReachableOnce ==
    (Returned("bfs") \/ Returned("bfs3")) =>
        LET order == result.value
        IN  /\ order # <<>>
            /\ order[1] = start
            /\ \A i \in DOMAIN order : \A j \in DOMAIN order :
                  order[i] = order[j] => i = j
            /\ {order[i] : i \in DOMAIN order} = Reachable(given, start)

\* C1 witness: a traversal that has met a cycle back to a visited node and an
\* undeclared target.
C1_Witness ==
    /\ Returned("bfs")
    /\ Len(result.value) = 3
    /\ DeclaredCycle(given)
    /\ \E i \in DOMAIN result.value : ~HasKey(given, result.value[i])

\* C2: detect_cycles(G) returns a boolean, true exactly when the subgraph
\* induced by the declared keys has a directed cycle; it does not fail, also
\* when some targets are undeclared.
C2_DetectCyclesDecides ==
    Returned("detect_cycles") =>
        /\ result.kind = "return"
        /\ result.value = DeclaredCycle(given)

\* C3: when some dependency is not a declared key, reverse_graph(G) completes
\* and returns a graph with exactly the keys of G that holds the transposed
\* edges between declared keys and nothing for the undeclared target.
C3_ReverseDropsUndeclared ==
    (Returned("reverse") /\ ~AllDeclared(given)) =>
        /\ result.kind = "return"
        /\ Keys(result.value) = Keys(given)
        /\ \A n \in Keys(given) : \A d \in Keys(given) :
              Occurrences(Get(result.value, d), n) = Occurrences(Get(given, n), d)

\* The round trip reverse_graph(reverse_graph(G)) is over: the second call
\* has returned, or the first one raised.
RoundTripOver ==
    \/ Returned("reverse2")
    \/ Returned("reverse") /\ result.kind # "return"

RoundTripReturned == Returned("reverse2") /\ result.kind = "return"

\* C4 as stated: reverse_graph(reverse_graph(G)) equals G, dependency lists
\* compared as sequences, exactly when every dependency target is declared.
C4_RoundTripIffDeclared ==
    RoundTripOver =>
        ((RoundTripReturned /\ result.value = given) <=> AllDeclared(given))

\* C4 amended: reverse_graph(reverse_graph(G)) has the keys of G in G's order
\* and for every key the dependencies of G with their multiplicities exactly
\* when every dependency target is declared; the lists come back in the order
\* of key declaration, so the result equals G exactly when moreover every
\* list of G is in that order.
C4_RoundTripUpToOrder ==
    RoundTripOver =>
        /\ (RoundTripReturned /\ SameUpToOrder(result.value, given))
              <=> AllDeclared(given)
        /\ RoundTripReturned => KeyOrdered(result.value)
        /\ (RoundTripReturned /\ result.value = given)
              <=> (AllDeclared(given) /\ KeyOrdered(given))

\* C4 witness: a round trip that returned the edges of G in another order.
C4_Witness ==
    /\ RoundTripReturned
    /\ result.value # given
    /\ SameUpToOrder(result.value, given)

\* C5: no core operation changes the graph it is given.
C5_GraphUnchanged ==
    (pc = "returned" /\ op \in {"reverse", "bfs", "bfs3", "detect_cycles", "tree"})
        => graph = given

PlainLines(v) ==
    Cardinality({i \in DOMAIN lines : lines[i].node = v /\ ~lines[i].cycle})

MarkedLines(v) ==
    Cardinality({i \in DOMAIN lines : lines[i].node = v /\ lines[i].cycle})

\* C6: the tree walk print_ascii_tree(G, s) finishes for every finite graph,
\* cycles and self-loops included, and every start node, declared or not:
\* a walk that has begun eventually returns.
C6_TreeTerminates == (pc = "tree") ~> (pc = "returned")

\* C6 witness: a finished walk of a graph with a cycle through the start node.
C6_Witness ==
    /\ Returned("tree")
    /\ HasKey(given, start)
    /\ start \in DeclaredClosure(given, DeclaredDeps(given, start))
    /\ MarkedLines(start) >= 1

RECURSIVE SumOccurrences(_, _, _)
\* The number of entries equal to v in the dependency lists of the nodes S.
SumOccurrences(g, S, v) ==
    IF S = {} THEN 0
    ELSE LET n == CHOOSE x \in S : TRUE
         IN  Occurrences(Get(g, n), v) + SumOccurrences(g, S \ {n}, v)

\* The number of times the walk from s comes to v: once for the start, and
\* once for every entry v in the list of a node reachable from s.
Encounters(g, s, v) ==
    (IF v = s THEN 1 ELSE 0) + SumOccurrences(g, Reachable(g, s), v)

\* C7 as stated: one print_ascii_tree call prints at most one line with the
\* cycle marker for any node.
C7_OneMarkerPerNode ==
    Returned("tree") => \A v \in Names : MarkedLines(v) <= 1

\* C7 amended: one print_ascii_tree call prints every reachable node once
\* without the marker and once with the marker for each further time the
\* walk comes to it, so a node can have several marked lines.
C7_MarkerPerLaterEncounter ==
    Returned("tree") =>
        \A v \in Names :
            IF v \in Reachable(given, start)
            THEN /\ PlainLines(v) = 1
                 /\ MarkedLines(v) = Encounters(given, start, v) - 1
            ELSE PlainLines(v) = 0 /\ MarkedLines(v) = 0

\* C7 witness: a finished walk with two marked lines for one node, in a graph
\* no dependency list of which names a node twice.
C7_Witness ==
    /\ Returned("tree")
    /\ \E v \in Names : MarkedLines(v) >= 2
    /\ \A i \in DOMAIN given : \A v \in Names : Occurrences(given[i][2], v) <= 1

RECURSIVE UpperText(_)
\* The text with every letter in upper case.
UpperText(txt) ==
    IF txt = <<>> THEN <<>> ELSE <<upper(Head(txt))>> \o UpperText(Tail(txt))

\* The run of stage 4 on a text: load_graph, then the rest of main.
Run4(txt, s, reverse) ==
    LET g == load_graph(txt)
    IN  IF g.kind = "return" THEN main4(g.value, s, reverse) ELSE g

\* The run of stage 3 on a text.
Run3(txt, s) ==
    LET r == main3(load_graph3(txt).value, s)
    IN  [kind |-> r.kind, value |-> r.value]

\* The run on the same text and start argument with the casings made to
\* match, every letter in upper case.
MatchingRun ==
    CASE op = "main3" -> Run3(UpperText(text), upper(start))
      [] op = "main4" -> Run4(UpperText(text), upper(start), FALSE)
      [] op = "main4_reverse" -> Run4(UpperText(text), upper(start), TRUE)

\* The node main hands to bfs_dependencies for the start argument.
StartPassed == IF op = "main3" THEN start ELSE upper(start)

\* C8: a start name that differs only in letter case from a declared name
\* resolves to that node: whenever the run with matching casings yields a BFS
\* order, the run yields the same order up to case, and the start is not
\* taken for an absent node when the text declares it in some casing.
C8_StartResolvesAcrossCase ==
    (pc = "returned" /\ op \in {"main3", "main4", "main4_reverse"}
        /\ MatchingRun.kind = "return") =>
        /\ result.kind = "return"
        /\ UpperAll(result.value) = MatchingRun.value
        /\ (\E k \in Keys(given) : upper(k) = upper(start))
              => HasKey(given, StartPassed)

\* The line has a ':' and only whitespace before the first one.
EmptyNameLine(line) ==
    Contains(line, ":") /\ strip(SplitOnce(line, ":")[1]) = <<>>

\* C9: load_graph fails exactly when some line has ':' with an empty name
\* before it; then no graph is returned, and every other text loads.
C9_ParseErrorIffEmptyName ==
    (pc \in {"loaded", "failed"} /\ op \in {"load_graph", "load_graph3"}) =>
        /\ (result.kind # "return")
              <=> (\E i \in DOMAIN text : EmptyNameLine(text[i]))
        /\ result.kind = "return" => ~HasKey(result.value, <<>>)

\* The edges with source and target exchanged.
Swapped(edges) == {<<e[2], e[1]>> : e \in edges}

EdgeSet(edges) == {edges[i] : i \in DOMAIN edges}

\* C10: for a graph whose targets are all declared, the edges a run with
\* --reverse hands to the renderer are those of a run without it, each with
\* source and target exchanged.
C10_ReverseFlagSwapsEdges ==
    (Returned("diagram_reverse") /\ AllDeclared(given)) =>
        /\ result.kind = "return"
        /\ EdgeSet(result.value)
              = Swapped(EdgeSet(main_diagram(given, FALSE).value))

RECURSIVE NestedUnder(_, _)
\* The nodes of the lines nested directly beneath line i, in order: the lines
\* one level deeper that follow it before the next line at its level or above.
\* NestedUnder(i, j) scans from line j.
NestedUnder(i, j) ==
    IF j > Len(lines) \/ lines[j].depth <= lines[i].depth THEN <<>>
    ELSE (IF lines[j].depth = lines[i].depth + 1 THEN <<lines[j].node>> ELSE <<>>)
         \o NestedUnder(i, j + 1)

\* C11: in the output of one print_ascii_tree(G, s) call every node reachable
\* from s has exactly one line without the cycle marker, its first line, and
\* that line is indented one level deeper than the line of the node whose
\* dependency it is there (the start at level 0, the dependencies of a node
\* nested beneath its unmarked line in declaration order); every later
\* encounter of a node is one marked line with nothing nested beneath it;
\* no other node is printed.
C11_TreeShape ==
    Returned("tree") =>
        /\ lines # <<>>
        /\ lines[1] = Line(start, 0, FALSE)
        /\ \A i \in DOMAIN lines :
              /\ lines[i].node \in Reachable(given, start)
              /\ i > 1 => /\ lines[i].depth >= 1
                          /\ lines[i].depth <= lines[i - 1].depth + 1
              /\ lines[i].cycle <=>
                    \E j \in 1..(i - 1) : lines[j].node = lines[i].node
              /\ NestedUnder(i, i + 1) =
                    IF lines[i].cycle THEN <<>> ELSE Get(given, lines[i].node)
        /\ \A v \in Reachable(given, start) :
              Cardinality({i \in DOMAIN lines :
                              lines[i].node = v /\ ~lines[i].cycle}) = 1

\* C11 witness: the walk of A: B C, B: C, C: from A, where C is reached by two
\* paths without a cycle: A, B, C, then C marked at the level of B.
C11_Witness ==
    /\ Returned("tree")
    /\ given = <<<<"A", <<"B", "C">>>>, <<"B", <<"C">>>>, <<"C", <<>>>>>>
    /\ lines = <<Line("A", 0, FALSE), Line("B", 1, FALSE), Line("C", 2, FALSE),
                 Line("C", 1, TRUE)>>

====
